---------------------------- MODULE Spec2Model ----------------------------
(***************************************************************************)
(* The gRPC order-book aggregation server of src/src/server.rs.            *)
(*                                                                         *)
(* One OrderbookSummary service object holds ONE Orderbook behind an       *)
(* Arc<futures::lock::Mutex<..>>.  Every get_summary / watch_summary       *)
(* request locks that same book, resets it with the request's parameters   *)
(* and loads the snapshots; a watch_summary request then opens the         *)
(* multiplexed feed and spawns a task that takes the lock again and runs   *)
(* the select! loop over the feed and tx.closed().                         *)
(*                                                                         *)
(* The engine (ckt_lib::orderbook), the adapters (ckt_lib::update) and the *)
(* symbol catalogue (ckt_lib::symbol) live in the library crate; they are   *)
(* modelled from the specification of the system.                          *)
(***************************************************************************)
EXTENDS Integers, Sequences, FiniteSets, TLC

(***************************************************************************)
(* Bounds of the model.                                                    *)
(***************************************************************************)
\* feed messages the sessions take from their multiplexers, all together
MaxMsgs == 2

\* the requests that arrive at the server: two, so that their lifetimes can
\* overlap in every way
Reqs == {1, 2}

Binance  == "Binance"
Bitstamp == "Bitstamp"
\* ExchangeType, in declaration order (the tie-break priority of the summary)
ExchangeType == <<Binance, Bitstamp>>

Bid == "bid"
Ask == "ask"

(***************************************************************************)
(* Requests: SummaryRequest {symbol, levels, min_price, max_price,         *)
(* decimals}.  Three concrete requests; they differ in every field so that *)
(* a book configured by one is recognisably not configured by another.     *)
(***************************************************************************)
ReqEthBtc == [symbol |-> "ethbtc", levels |-> 1, min_price |-> 1, max_price |-> 3, decimals |-> 0]
ReqLtcBtc == [symbol |-> "ltcbtc", levels |-> 2, min_price |-> 2, max_price |-> 4, decimals |-> 1]
ReqBogus  == [symbol |-> "bogus",  levels |-> 1, min_price |-> 1, max_price |-> 3, decimals |-> 0]
NoRequest == [symbol |-> "",       levels |-> 0, min_price |-> 0, max_price |-> 0, decimals |-> 0]

SummaryRequests == {ReqEthBtc, ReqLtcBtc, ReqBogus}

\* symbols present on every exchange (the symbol catalogue)
SymbolsAll == {"ethbtc", "ltcbtc"}

\* validate_symbol(&symbol): Ok iff the symbol is on all exchanges
validate_symbol(symbol) == symbol \in SymbolsAll

(***************************************************************************)
(* The engine: an Orderbook is its configuration and two ladders.  A       *)
(* ladder is a set of exchange levels, at most one per (exchange, price).  *)
(***************************************************************************)
Level(e, p, q) == [exchange |-> e, price |-> p, quantity |-> q]
LevelUpdate(e, s, p, q) == [exchange |-> e, side |-> s, price |-> p, quantity |-> q]

\* Orderbook::default()
OrderbookDefault ==
    [symbol |-> "", levels |-> 0, min_price |-> 0, max_price |-> 0, decimals |-> 0,
     bids |-> {}, asks |-> {}]

\* ob.reset(symbol, levels, min_price, max_price, decimals): new
\* configuration, both ladders cleared
reset(ob, rq) ==
    [symbol |-> rq.symbol, levels |-> rq.levels, min_price |-> rq.min_price,
     max_price |-> rq.max_price, decimals |-> rq.decimals, bids |-> {}, asks |-> {}]

\* one LevelUpdate applied to a ladder: quantity 0 removes the exchange's
\* level at that price, a positive quantity inserts or overwrites it
ApplyLadder(ladder, u) ==
    LET rest == {l \in ladder : ~(l.exchange = u.exchange /\ l.price = u.price)}
    IN  IF u.quantity = 0 THEN rest
        ELSE rest \cup {Level(u.exchange, u.price, u.quantity)}

apply(ob, u) ==
    IF u.side = Bid THEN [ob EXCEPT !.bids = ApplyLadder(ob.bids, u)]
                    ELSE [ob EXCEPT !.asks = ApplyLadder(ob.asks, u)]

RECURSIVE ApplyAll(_, _)
ApplyAll(ob, updates) ==
    IF updates = <<>> THEN ob
    ELSE ApplyAll(apply(ob, Head(updates)), Tail(updates))

\* crossed book: the best bid price >= the best ask price
Crossed(ob) == \E b \in ob.bids : \E a \in ob.asks : b.price >= a.price

\* ob.update(updates): applies the updates in order; reports an error for a
\* crossed book after the apply
update(ob, updates) ==
    LET nb == ApplyAll(ob, updates)
    IN  [ob |-> nb, ok |-> ~Crossed(nb)]

\* the snapshot each exchange serves for a symbol, as LevelUpdates
Snapshot(symbol) ==
    IF symbol = "ethbtc"
    THEN << LevelUpdate(Binance, Bid, 1, 2), LevelUpdate(Bitstamp, Bid, 1, 1),
            LevelUpdate(Binance, Ask, 3, 1), LevelUpdate(Bitstamp, Ask, 4, 2) >>
    ELSE IF symbol = "ltcbtc"
    THEN << LevelUpdate(Binance, Bid, 2, 1), LevelUpdate(Bitstamp, Bid, 1, 3),
            LevelUpdate(Bitstamp, Ask, 3, 1) >>
    ELSE <<>>

\* ob.add_snapshots() when every fetch succeeded
add_snapshots(ob) == ApplyAll(ob, Snapshot(ob.symbol))

ExchangeRank(e) == IF e = ExchangeType[1] THEN 1 ELSE 2

\* x comes before y on the given side: bids by descending price, asks by
\* ascending price, equal prices by exchange declaration order
Before(x, y, side) ==
    \/ x = y
    \/ IF side = Bid THEN x.price > y.price ELSE x.price < y.price
    \/ x.price = y.price /\ ExchangeRank(x.exchange) < ExchangeRank(y.exchange)

RECURSIVE TopLevels(_, _, _)
TopLevels(ladder, n, side) ==
    IF n = 0 \/ ladder = {} THEN <<>>
    ELSE LET best == CHOOSE x \in ladder : \A y \in ladder : Before(x, y, side)
         IN  <<best>> \o TopLevels(ladder \ {best}, n - 1, side)

InRange(ob, l) == ob.min_price <= l.price /\ l.price <= ob.max_price

\* ob.get_summary(): the top `levels` of each side inside the price range,
\* and the spread (0 when a side is empty)
ob_get_summary(ob) ==
    LET bids == TopLevels({l \in ob.bids : InRange(ob, l)}, ob.levels, Bid)
        asks == TopLevels({l \in ob.asks : InRange(ob, l)}, ob.levels, Ask)
    IN  [spread |-> IF bids # <<>> /\ asks # <<>> THEN asks[1].price - bids[1].price ELSE 0,
         bids |-> bids, asks |-> asks]

NoSummary == [spread |-> 0, bids |-> <<>>, asks |-> <<>>]

(***************************************************************************)
(* Feed messages: (key, msg) pairs of the multiplexed stream.  `kind`      *)
(* stands for the bytes of the message:                                    *)
(*   ws_error    the stream item is an Err                                 *)
(*   not_json    the bytes are not JSON                                    *)
(*   malformed   JSON whose levels the exchange's adapter cannot read      *)
(*               (for Bitstamp: inside a non-empty "data" object)          *)
(*   no_data     JSON without a "data" object                              *)
(*   empty_data  JSON whose "data" is the empty object                     *)
(*   delta       JSON carrying the LevelUpdates `updates`                  *)
(***************************************************************************)
Msg(k, kd, us) == [key |-> k, kind |-> kd, updates |-> us]
NoMsg == Msg("", "none", <<>>)

Messages ==
    { Msg(Binance,  "ws_error",   <<>>),
      Msg(Binance,  "not_json",   <<>>),
      Msg(Bitstamp, "not_json",   <<>>),
      Msg(Binance,  "malformed",  <<>>),
      Msg(Bitstamp, "malformed",  <<>>),
      Msg(Bitstamp, "no_data",    <<>>),
      Msg(Bitstamp, "empty_data", <<>>),
      Msg(Binance,  "delta", << LevelUpdate(Binance, Bid, 2, 1) >>),
      Msg(Bitstamp, "delta", << LevelUpdate(Bitstamp, Ask, 3, 0),
                                LevelUpdate(Bitstamp, Ask, 4, 1) >>),
      Msg(Binance,  "delta", << LevelUpdate(Binance, Bid, 3, 1) >>) }

\* serde_json::from_slice(&msg.into_data()) is Ok
IsJson(m) == m.kind \notin {"ws_error", "not_json"}

\* get_updates_binance(&msg_value) is Ok
get_updates_binance_ok(m) == m.kind = "delta"

\* msg_value["data"].as_object() is Some
HasDataObject(m) == m.kind \in {"empty_data", "malformed", "delta"}

\* data.len() > 0
DataNonEmpty(m) == m.kind \in {"malformed", "delta"}

\* get_updates_bitstamp(data) is Ok
get_updates_bitstamp_ok(m) == m.kind = "delta"


\* the updates a message contributes when it is normalised by its adapter;
\* a message that is skipped contributes none
Normalized(m) ==
    IF IsJson(m) /\ m.kind = "delta" THEN m.updates ELSE <<>>

\* an item of the session's channel: Result<Summary, Status>
OkItem(s) == [ok |-> TRUE, summary |-> s]
ErrItem   == [ok |-> FALSE, summary |-> NoSummary]

(***************************************************************************)
(* The body of the select! branch `Some((key, msg)) = map.next()`, lines   *)
(* 118-143, as a function of the book and the message: the book it leaves  *)
(* and how the branch ends ("send" reaches tx.send, anything else is the   *)
(* `?` that returns from the task).                                        *)
(***************************************************************************)
Outcome(ob, how) == [ob |-> ob, how |-> how]

\* lines 124-126
on_binance(ob, m) ==
    IF get_updates_binance_ok(m)
    THEN LET u == update(ob, m.updates)
         IN  Outcome(u.ob, IF u.ok THEN "send" ELSE "update_failed")
    ELSE Outcome(ob, "send")

\* a Bitstamp arm without the data.len() > 0 test: the empty object goes to
\* the adapter, whose error is propagated
on_bitstamp_no_len_test(ob, m) ==
    IF HasDataObject(m)
    THEN IF get_updates_bitstamp_ok(m)
         THEN LET u == update(ob, m.updates)
              IN  Outcome(u.ob, IF u.ok THEN "send" ELSE "update_failed")
         ELSE Outcome(ob, "adapter_failed")
    ELSE Outcome(ob, "send")

\* lines 128-136
on_bitstamp(ob, m) ==
    IF HasDataObject(m)
    THEN IF DataNonEmpty(m)
         THEN IF get_updates_bitstamp_ok(m)
              THEN LET u == update(ob, m.updates)
                   IN  Outcome(u.ob, IF u.ok THEN "send" ELSE "update_failed")
              ELSE Outcome(ob, "adapter_failed")
         ELSE Outcome(ob, "send")
    ELSE Outcome(ob, "send")

\* lines 119-138
on_message(ob, m) ==
    IF m.kind = "ws_error" THEN Outcome(ob, "message_failed")
    ELSE IF IsJson(m)
         THEN IF m.key = Binance THEN on_binance(ob, m) ELSE on_bitstamp(ob, m)
         ELSE Outcome(ob, "send")

(***************************************************************************)
(* State.                                                                  *)
(***************************************************************************)
VARIABLES
    orderbook,   \* the one Orderbook inside self.orderbook
    lock,        \* who holds the Mutex guard
    kind,        \* per request: "none", "get" or "watch"
    request,     \* per request: its SummaryRequest
    pc,          \* per request: where its handler is
    response,    \* per request: what the handler returned
    rx,          \* per request: the receiving half of the channel
    chan,        \* per request: items sent and not yet received
    received,    \* per request: items the client has received
    map,         \* per request: the multiplexed feed
    task,        \* per request: where the spawned task is
    exit,        \* per request: why the task returned
    n_taken,     \* per request: feed messages taken from map.next()
    last_msg,    \* per request: the last message taken
    last_reset,  \* history: the request of the last reset, whether its snapshots
                 \* loaded, and the requests that wrote to the book since
    shadow,      \* history: per request, its own snapshot plus its own messages
    audit,       \* history: per request, for each summary sent: the book it came from
    work         \* history: per request, the engine work done on its behalf

vars == << orderbook, lock, kind, request, pc, response, rx, chan, received, map,
           task, exit, n_taken, last_msg, last_reset, shadow, audit, work >>

Free       == [by |-> "nobody",  id |-> 0]
Handler(r) == [by |-> "handler", id |-> r]
Task(r)    == [by |-> "task",    id |-> r]

NoResponse       == [status |-> "pending", msg |-> "", has_summary |-> FALSE, summary |-> NoSummary]
OkSummary(s)     == [status |-> "ok", msg |-> "", has_summary |-> TRUE, summary |-> s]
OkStream         == [status |-> "ok", msg |-> "stream", has_summary |-> FALSE, summary |-> NoSummary]
ErrStatus(m)     == [status |-> "error", msg |-> m, has_summary |-> FALSE, summary |-> NoSummary]

Init ==
    /\ orderbook = OrderbookDefault
    /\ lock = Free
    /\ kind = [r \in Reqs |-> "none"]
    /\ request = [r \in Reqs |-> NoRequest]
    /\ pc = [r \in Reqs |-> "idle"]
    /\ response = [r \in Reqs |-> NoResponse]
    /\ rx = [r \in Reqs |-> "none"]
    /\ chan = [r \in Reqs |-> <<>>]
    /\ received = [r \in Reqs |-> <<>>]
    /\ map = [r \in Reqs |-> "none"]
    /\ task = [r \in Reqs |-> "none"]
    /\ exit = [r \in Reqs |-> "none"]
    /\ n_taken = [r \in Reqs |-> 0]
    /\ last_msg = [r \in Reqs |-> NoMsg]
    /\ last_reset = [by |-> 0, loaded |-> FALSE, writers |-> {}]
    /\ shadow = [r \in Reqs |-> OrderbookDefault]
    /\ audit = [r \in Reqs |-> <<>>]
    /\ work = [r \in Reqs |-> {}]

(***************************************************************************)
(* The handlers.                                                           *)
(***************************************************************************)
\* a request arrives and is destructured; watch_summary creates its channel
\* (requests are numbered in their order of arrival)
Request(r) ==
    /\ pc[r] = "idle"
    /\ \A q \in Reqs : q < r => pc[q] # "idle"
    /\ \E k \in {"get", "watch"} : \E rq \in SummaryRequests :
          /\ kind' = [kind EXCEPT ![r] = k]
          /\ request' = [request EXCEPT ![r] = rq]
          /\ rx' = [rx EXCEPT ![r] = IF k = "watch" THEN "open" ELSE "none"]
    /\ pc' = [pc EXCEPT ![r] = "validate"]
    /\ UNCHANGED << orderbook, lock, response, chan, received, map, task, exit,
                    n_taken, last_msg, last_reset, shadow, audit, work >>

\* validate_symbol(&symbol).await is Ok
ValidateOk(r) ==
    /\ pc[r] = "validate"
    /\ validate_symbol(request[r].symbol)
    /\ pc' = [pc EXCEPT ![r] = "lock"]
    /\ UNCHANGED << orderbook, lock, kind, request, response, rx, chan, received, map,
                    task, exit, n_taken, last_msg, last_reset, shadow, audit, work >>

\* a handler that validates only after it has locked and reset the book
ValidateFailLate(r) ==
    /\ pc[r] = "validate"
    /\ ~validate_symbol(request[r].symbol)
    /\ lock = Free
    /\ orderbook' = reset(orderbook, request[r])
    /\ last_reset' = [by |-> r, loaded |-> FALSE, writers |-> {r}]
    /\ work' = [work EXCEPT ![r] = @ \cup {"lock", "reset"}]
    /\ pc' = [pc EXCEPT ![r] = "returned"]
    /\ response' = [response EXCEPT ![r] = ErrStatus("validate_symbol")]
    /\ rx' = [rx EXCEPT ![r] = IF kind[r] = "watch" THEN "dropped" ELSE @]
    /\ UNCHANGED << lock, kind, request, chan, received, map, task, exit,
                    n_taken, last_msg, shadow, audit >>

\* validate_symbol(&symbol).await? returns the error: the handler is over,
\* and with it the channel of a watch_summary
ValidateFail(r) ==
    /\ pc[r] = "validate"
    /\ ~validate_symbol(request[r].symbol)
    /\ pc' = [pc EXCEPT ![r] = "returned"]
    /\ response' = [response EXCEPT ![r] = ErrStatus("validate_symbol")]
    /\ rx' = [rx EXCEPT ![r] = IF kind[r] = "watch" THEN "dropped" ELSE @]
    /\ UNCHANGED << orderbook, lock, kind, request, chan, received, map, task, exit,
                    n_taken, last_msg, last_reset, shadow, audit, work >>

\* self.orderbook.lock().await, then ob.reset(..): no suspension between them
LockAndReset(r) ==
    /\ pc[r] = "lock"
    /\ lock = Free
    /\ lock' = Handler(r)
    /\ orderbook' = reset(orderbook, request[r])
    /\ last_reset' = [by |-> r, loaded |-> FALSE, writers |-> {r}]
    /\ work' = [work EXCEPT ![r] = @ \cup {"lock", "reset"}]
    /\ pc' = [pc EXCEPT ![r] = "add_snapshots"]
    /\ UNCHANGED << kind, request, response, rx, chan, received, map, task, exit,
                    n_taken, last_msg, shadow, audit >>

\* ob.add_snapshots().await is Ok.  get_summary computes the summary and
\* returns it, its guard dropped; watch_summary leaves the block, its guard
\* dropped, and goes on to open the feed
SnapshotsOk(r) ==
    /\ pc[r] = "add_snapshots"
    /\ lock = Handler(r)
    /\ LET ob == add_snapshots(orderbook)
       IN  /\ orderbook' = ob
           /\ shadow' = [shadow EXCEPT ![r] = ob]
           /\ response' = [response EXCEPT ![r] =
                             IF kind[r] = "get" THEN OkSummary(ob_get_summary(ob)) ELSE @]
    /\ last_reset' = [last_reset EXCEPT !.loaded = TRUE]
    /\ work' = [work EXCEPT ![r] = @ \cup {"fetch"}]
    /\ lock' = Free
    /\ pc' = [pc EXCEPT ![r] = IF kind[r] = "get" THEN "returned" ELSE "get_stream"]
    /\ UNCHANGED << kind, request, rx, chan, received, map, task, exit,
                    n_taken, last_msg, audit >>

\* a handler that returns the error and keeps the guard
SnapshotsFailKeepGuard(r) ==
    /\ pc[r] = "add_snapshots"
    /\ lock = Handler(r)
    /\ work' = [work EXCEPT ![r] = @ \cup {"fetch"}]
    /\ pc' = [pc EXCEPT ![r] = "returned"]
    /\ response' = [response EXCEPT ![r] = ErrStatus("Failed to add snapshots")]
    /\ rx' = [rx EXCEPT ![r] = IF kind[r] = "watch" THEN "dropped" ELSE @]
    /\ UNCHANGED << orderbook, lock, kind, request, chan, received, map, task, exit,
                    n_taken, last_msg, last_reset, shadow, audit >>

\* ob.add_snapshots().await is Err: `?` returns Status::internal("Failed to
\* add snapshots"); the guard is dropped, the book stays reset and empty
SnapshotsFail(r) ==
    /\ pc[r] = "add_snapshots"
    /\ lock = Handler(r)
    /\ work' = [work EXCEPT ![r] = @ \cup {"fetch"}]
    /\ lock' = Free
    /\ pc' = [pc EXCEPT ![r] = "returned"]
    /\ response' = [response EXCEPT ![r] = ErrStatus("Failed to add snapshots")]
    /\ rx' = [rx EXCEPT ![r] = IF kind[r] = "watch" THEN "dropped" ELSE @]
    /\ UNCHANGED << orderbook, kind, request, chan, received, map, task, exit,
                    n_taken, last_msg, last_reset, shadow, audit >>

\* a handler that sends the summary of the snapshots before it spawns the task
GetStreamOkSendsFirst(r) ==
    /\ pc[r] = "get_stream"
    /\ map' = [map EXCEPT ![r] = "open"]
    /\ task' = [task EXCEPT ![r] = "lock"]
    /\ work' = [work EXCEPT ![r] = @ \cup {"open", "spawn"}]
    /\ pc' = [pc EXCEPT ![r] = "returned"]
    /\ response' = [response EXCEPT ![r] = OkStream]
    /\ chan' = [chan EXCEPT ![r] = Append(@, OkItem(ob_get_summary(orderbook)))]
    /\ UNCHANGED << orderbook, lock, kind, request, rx, received, exit,
                    n_taken, last_msg, last_reset, shadow, audit >>

\* get_stream(symbol).await is Ok: the task is spawned with the feed, the
\* sender and a clone of the Arc, and the handler returns the stream
GetStreamOk(r) ==
    /\ pc[r] = "get_stream"
    /\ map' = [map EXCEPT ![r] = "open"]
    /\ task' = [task EXCEPT ![r] = "lock"]
    /\ work' = [work EXCEPT ![r] = @ \cup {"open", "spawn"}]
    /\ pc' = [pc EXCEPT ![r] = "returned"]
    /\ response' = [response EXCEPT ![r] = OkStream]
    /\ UNCHANGED << orderbook, lock, kind, request, rx, chan, received, exit,
                    n_taken, last_msg, last_reset, shadow, audit >>

\* get_stream(symbol).await is Err: `?` returns Status::internal("Could not
\* get stream")
GetStreamFail(r) ==
    /\ pc[r] = "get_stream"
    /\ pc' = [pc EXCEPT ![r] = "returned"]
    /\ response' = [response EXCEPT ![r] = ErrStatus("Could not get stream")]
    /\ rx' = [rx EXCEPT ![r] = "dropped"]
    /\ UNCHANGED << orderbook, lock, kind, request, chan, received, map, task, exit,
                    n_taken, last_msg, last_reset, shadow, audit, work >>

(***************************************************************************)
(* The spawned task.                                                       *)
(***************************************************************************)
\* the feed messages taken so far by all sessions
RECURSIVE SumTaken(_)
SumTaken(S) ==
    IF S = {} THEN 0
    ELSE LET r == CHOOSE x \in S : TRUE IN n_taken[r] + SumTaken(S \ {r})

TotalTaken == SumTaken(Reqs)

\* a task whose guard is dropped as soon as it is taken
TaskLockDropsGuard(r) ==
    /\ task[r] = "lock"
    /\ lock = Free
    /\ task' = [task EXCEPT ![r] = "loop"]
    /\ UNCHANGED << orderbook, lock, kind, request, pc, response, rx, chan, received, map,
                    exit, n_taken, last_msg, last_reset, shadow, audit, work >>

\* let mut ob = ob_clone.lock().await
TaskLock(r) ==
    /\ task[r] = "lock"
    /\ lock = Free
    /\ lock' = Task(r)
    /\ task' = [task EXCEPT ![r] = "loop"]
    /\ UNCHANGED << orderbook, kind, request, pc, response, rx, chan, received, map,
                    exit, n_taken, last_msg, last_reset, shadow, audit, work >>

\* the task returns: its guard, its feed and its sender are dropped
TaskReturns(r, why) ==
    /\ task' = [task EXCEPT ![r] = "returned"]
    /\ exit' = [exit EXCEPT ![r] = why]
    /\ lock' = Free
    /\ map' = [map EXCEPT ![r] = "dropped"]

\* a loop that ignores the error of tx.send and goes on
TaskMessageIgnoresSendError(r) ==
    /\ task[r] = "loop"
    /\ map[r] = "open"
    /\ TotalTaken < MaxMsgs
    /\ \E m \in Messages :
          LET o == on_message(orderbook, m)
              s == ob_get_summary(o.ob)
              sh == ApplyAll(shadow[r], Normalized(m))
          IN  /\ orderbook' = o.ob
              /\ last_msg' = [last_msg EXCEPT ![r] = m]
              /\ last_reset' = IF o.ob = orderbook THEN last_reset
                               ELSE [last_reset EXCEPT !.writers = @ \cup {r}]
              /\ shadow' = [shadow EXCEPT ![r] = sh]
              /\ IF o.how = "send"
                 THEN /\ chan' = [chan EXCEPT ![r] =
                                    IF rx[r] = "open" THEN Append(@, OkItem(s)) ELSE @]
                      /\ audit' = [audit EXCEPT ![r] =
                                     IF rx[r] = "open"
                                     THEN Append(@, [expect |-> ob_get_summary(sh),
                                                     owner |-> last_reset.by,
                                                     loaded |-> last_reset.loaded,
                                                     writers |-> last_reset'.writers])
                                     ELSE @]
                      /\ UNCHANGED << task, exit, lock, map >>
                 ELSE /\ TaskReturns(r, o.how)
                      /\ UNCHANGED << chan, audit >>
    /\ n_taken' = [n_taken EXCEPT ![r] = @ + 1]
    /\ UNCHANGED << kind, request, pc, response, rx, received, work >>

\* select! branch Some((key, msg)) = map.next(): the message is handled and
\* the summary sent; tx.send fails when the receiver is gone
TaskMessage(r) ==
    /\ task[r] = "loop"
    /\ map[r] = "open"
    /\ TotalTaken < MaxMsgs
    /\ \E m \in Messages :
          LET o == on_message(orderbook, m)
              s == ob_get_summary(o.ob)
              sh == ApplyAll(shadow[r], Normalized(m))
          IN  /\ orderbook' = o.ob
              /\ last_msg' = [last_msg EXCEPT ![r] = m]
              /\ last_reset' = IF o.ob = orderbook THEN last_reset
                               ELSE [last_reset EXCEPT !.writers = @ \cup {r}]
              /\ shadow' = [shadow EXCEPT ![r] = sh]
              /\ IF o.how = "send" /\ rx[r] = "open"
                 THEN /\ chan' = [chan EXCEPT ![r] = Append(@, OkItem(s))]
                      /\ audit' = [audit EXCEPT ![r] =
                                     Append(@, [expect |-> ob_get_summary(sh),
                                                owner |-> last_reset.by,
                                                loaded |-> last_reset.loaded,
                                                writers |-> last_reset'.writers])]
                      /\ UNCHANGED << task, exit, lock, map >>
                 ELSE /\ TaskReturns(r, IF o.how = "send" THEN "send_failed" ELSE o.how)
                      /\ UNCHANGED << chan, audit >>
    /\ n_taken' = [n_taken EXCEPT ![r] = @ + 1]
    /\ UNCHANGED << kind, request, pc, response, rx, received, work >>

\* select! branch () = tx.closed(): the receiver is gone, the task returns Ok
TaskClosed(r) ==
    /\ task[r] = "loop"
    /\ rx[r] # "open"
    /\ TaskReturns(r, "closed")
    /\ UNCHANGED << orderbook, kind, request, pc, response, rx, chan, received,
                    n_taken, last_msg, last_reset, shadow, audit, work >>

(***************************************************************************)
(* The environment: the client of a stream, and the exchanges' feeds.      *)
(***************************************************************************)
\* the client reads the next item of its stream
ClientRecv(r) ==
    /\ response[r] = OkStream
    /\ rx[r] = "open"
    /\ chan[r] # <<>>
    /\ received' = [received EXCEPT ![r] = Append(@, Head(chan[r]))]
    /\ chan' = [chan EXCEPT ![r] = Tail(@)]
    /\ UNCHANGED << orderbook, lock, kind, request, pc, response, rx, map, task, exit,
                    n_taken, last_msg, last_reset, shadow, audit, work >>

\* the client reads the end of its stream: every sender is gone and the
\* channel is empty
ClientSeesEnd(r) ==
    /\ response[r] = OkStream
    /\ rx[r] = "open"
    /\ chan[r] = <<>>
    /\ task[r] = "returned"
    /\ rx' = [rx EXCEPT ![r] = "ended"]
    /\ UNCHANGED << orderbook, lock, kind, request, pc, response, chan, received, map,
                    task, exit, n_taken, last_msg, last_reset, shadow, audit, work >>

\* the client disconnects: the receiver is dropped with what it holds
ClientDisconnect(r) ==
    /\ response[r] = OkStream
    /\ rx[r] = "open"
    /\ rx' = [rx EXCEPT ![r] = "dropped"]
    /\ UNCHANGED << orderbook, lock, kind, request, pc, response, chan, received, map,
                    task, exit, n_taken, last_msg, last_reset, shadow, audit, work >>

\* every exchange connection of the feed ends: map.next() yields None from
\* now on, which disables the select! branch
FeedEnds(r) ==
    /\ map[r] = "open"
    /\ map' = [map EXCEPT ![r] = "ended"]
    /\ UNCHANGED << orderbook, lock, kind, request, pc, response, rx, chan, received,
                    task, exit, n_taken, last_msg, last_reset, shadow, audit, work >>

HandlerStep(r) ==
    \/ ValidateOk(r)
    \/ ValidateFail(r)
    \/ LockAndReset(r)
    \/ SnapshotsOk(r)
    \/ SnapshotsFail(r)
    \/ GetStreamOk(r)
    \/ GetStreamFail(r)

TaskStep(r) ==
    \/ TaskLock(r)
    \/ TaskMessage(r)
    \/ TaskClosed(r)

Environment(r) ==
    \/ Request(r)
    \/ ClientRecv(r)
    \/ ClientSeesEnd(r)
    \/ ClientDisconnect(r)
    \/ FeedEnds(r)

Next == \E r \in Reqs : HandlerStep(r) \/ TaskStep(r) \/ Environment(r)

Spec == Init /\ [][Next]_vars

\* the runtime schedules every handler and every task that can run
FairSpec == Spec /\ \A r \in Reqs : WF_vars(HandlerStep(r)) /\ WF_vars(TaskStep(r))

(***************************************************************************)
(* Properties.                                                             *)
(***************************************************************************)
\* the items a session has sent so far, in the order it sent them
Sent(r) == received[r] \o chan[r]

\* the book a request would have if it were the only one: reset with its
\* own parameters, its own snapshots loaded
OwnBook(r) == add_snapshots(reset(OrderbookDefault, request[r]))

\* a message that cannot be normalised: not JSON, or one its adapter rejects
Unparseable(m) == m.kind \in {"not_json", "malformed"}

\* request r took a feed message in this step
Took(r) == n_taken'[r] = n_taken[r] + 1

\* the handler of request r returns in this step
Returns(r) == pc[r] # "returned" /\ pc'[r] = "returned"

\* C1 (session isolation): every summary a request returns or a session
\* emits was computed from a book that was reset by that same request, whose
\* snapshots had loaded, and that only that request has written to since.
C1_SessionIsolation ==
    \A r \in Reqs :
        /\ response[r].has_summary => response[r].summary = ob_get_summary(OwnBook(r))
        /\ \A k \in 1 .. Len(audit[r]) :
              /\ audit[r][k].owner = r
              /\ audit[r][k].writers \subseteq {r}

\* C2 (feed end is reported): a session whose feed has ended while its
\* client is still connected is never left waiting: its task has a step to
\* take (the one that would send the error and return).
C2_FeedEndTerminates ==
    \A r \in Reqs :
        (task[r] = "loop" /\ map[r] = "ended" /\ rx[r] = "open") => ENABLED TaskStep(r)

\* C3 (final error status): when a session's task returned because of a
\* failure (an erroneous feed message, a propagated adapter failure, a
\* failed ob.update) and the client has read its stream to the end, the last
\* item the client received is an error status.
C3_FinalErrorStatus ==
    \A r \in Reqs :
        ( /\ task[r] = "returned"
          /\ exit[r] \in {"message_failed", "adapter_failed", "update_failed"}
          /\ rx[r] = "ended" )
        => /\ received[r] # <<>>
           /\ ~received[r][Len(received[r])].ok

\* C4 (normalisation failures are isolated): a step in which a session with
\* a connected client takes a message that cannot be normalised (for either
\* exchange) leaves the book unchanged and the session running.
C4_UnparseableIsolated ==
    [][ \A r \in Reqs :
          (Took(r) /\ Unparseable(last_msg'[r]) /\ rx[r] = "open")
          => (task'[r] = "loop" /\ orderbook' = orderbook) ]_vars

\* C5 (cancellation liveness): once the client's channel of a session is
\* closed, the session's task eventually returns, its feed dropped and its
\* guard released.  Under weak fairness of the handlers and tasks this
\* requires that, as long as such a task has not returned, some handler or
\* task has a step to take: in a state where none has, the server may stay
\* there for ever.
C5_CancellationLiveness ==
    \A r \in Reqs :
        (rx[r] = "dropped" /\ task[r] \in {"lock", "loop"})
        => ENABLED (\E q \in Reqs : HandlerStep(q) \/ TaskStep(q))

\* the same claim as a temporal formula, for FairSpec
C5_CancellationLeadsToReturn ==
    \A r \in Reqs :
        (rx[r] = "dropped" /\ task[r] \in {"lock", "loop"})
        ~> (task[r] = "returned" /\ map[r] = "dropped" /\ lock # Task(r))

\* C6 (back-pressure): the channel of a session never holds more than the
\* latest undelivered summary.
C6_LatestSupersedes ==
    \A r \in Reqs : Len(chan[r]) <= 1

\* C7 (independent progress): no request waits for the book's lock while a
\* watch session's task holds it.
C7_NoWaitOnSessionLock ==
    \A r \in Reqs : pc[r] = "lock" => \A q \in Reqs : lock # Task(q)

\* C8 (ordering): the k-th item a session sent is the summary of its own
\* snapshot state with the updates of the first k messages it took applied
\* in order.
C8_OrderedSummaries ==
    \A r \in Reqs :
        /\ Len(Sent(r)) = Len(audit[r])
        /\ \A k \in 1 .. Len(audit[r]) :
              /\ Sent(r)[k].ok
              /\ Sent(r)[k].summary = audit[r][k].expect

\* C9 (validation before engine work): every step of the handler of a
\* request whose symbol fails validate_symbol (its arrival, and its return
\* from validate_symbol) leaves the book, its lock and its reset history as
\* they were; no engine work is done for the request, no feed opened, no
\* task spawned, and what the handler returns is the validation error.
C9_ValidationBeforeEngineWork ==
    [][ \A r \in Reqs :
          (pc'[r] # pc[r] /\ ~validate_symbol(request'[r].symbol))
          => /\ orderbook' = orderbook
             /\ lock' = lock
             /\ last_reset' = last_reset
             /\ work'[r] = {}
             /\ map'[r] = "none"
             /\ task'[r] = "none"
             /\ pc'[r] \in {"validate", "returned"}
             /\ pc'[r] = "returned" => response'[r] = ErrStatus("validate_symbol") ]_vars

\* a watch_summary whose validation failed while another session was running
C9_Witness ==
    \E r \in Reqs : \E q \in Reqs \ {r} :
        /\ kind[r] = "watch"
        /\ response[r] = ErrStatus("validate_symbol")
        /\ task[q] = "loop"
        /\ orderbook.bids # {}

\* C10 (failed snapshot load or feed open): the handler returns an error
\* and no summary, has opened no feed and spawned no task, and the book's
\* lock is free when it returns.
C10_LockFreeOnError ==
    [][ \A r \in Reqs :
          (Returns(r) /\ response'[r].msg \in {"Failed to add snapshots", "Could not get stream"})
          => /\ response'[r].status = "error"
             /\ ~response'[r].has_summary
             /\ map'[r] = "none"
             /\ task'[r] = "none"
             /\ lock' = Free ]_vars

\* what holds of C10 whatever the other requests do: the handler returns an
\* error and no summary, has opened no feed and spawned no task, and holds
\* no guard itself; after a failed snapshot load the lock is free, after a
\* failed feed open it is as the other requests left it.
NoGuardOnError ==
    [][ \A r \in Reqs :
          (Returns(r) /\ response'[r].msg \in {"Failed to add snapshots", "Could not get stream"})
          => /\ response'[r].status = "error"
             /\ ~response'[r].has_summary
             /\ map'[r] = "none"
             /\ task'[r] = "none"
             /\ lock'.id # r
             /\ response'[r].msg = "Failed to add snapshots" => lock' = Free
             /\ response'[r].msg = "Could not get stream" => lock' = lock ]_vars

\* C11 (bounded response to disconnect): no feed message that a session
\* takes after its client's channel is closed is applied to the book, and
\* the step releases the feed.
C11_NoApplyAfterClose ==
    [][ \A r \in Reqs :
          (Took(r) /\ rx[r] # "open")
          => (orderbook' = orderbook /\ map'[r] = "dropped") ]_vars

\* C11 as the loop does it: a step of the loop taken after the close either
\* returns at once (tx.closed()) or takes one message, whose updates may be
\* applied, sends nothing and returns; either way the step releases the feed
\* and the lock, so at most one message is taken after the close.
C11_OneStepAfterClose ==
    [][ \A r \in Reqs :
          /\ (Took(r) /\ rx[r] # "open")
             => /\ task'[r] = "returned"
                /\ chan'[r] = chan[r]
                /\ orderbook' = on_message(orderbook, last_msg'[r]).ob
          /\ (task[r] = "loop" /\ rx[r] # "open" /\ task'[r] # task[r])
             => /\ task'[r] = "returned"
                /\ map'[r] = "dropped"
                /\ lock' = Free ]_vars

\* a session took a delta after its client had gone, applied it, and returned
C11_Witness ==
    \E r \in Reqs :
        /\ exit[r] = "send_failed"
        /\ last_msg[r].kind = "delta"
        /\ n_taken[r] = 1
        /\ last_reset.by = r
        /\ orderbook # OwnBook(r)
        /\ map[r] = "dropped"

\* the update of the message taken in this step by r made the engine report
\* a crossed book
CrossedBy(r) ==
    /\ Took(r)
    /\ IsJson(last_msg'[r])
    /\ last_msg'[r].kind = "delta"
    /\ ~update(orderbook, last_msg'[r].updates).ok

\* C12 (a crossed book is not fatal): when the updates of a message make the
\* engine report a crossed book, the session with a connected client still
\* sends the summary for that message and goes on.
C12_CrossedBookNotFatal ==
    [][ \A r \in Reqs :
          (CrossedBy(r) /\ rx[r] = "open")
          => /\ task'[r] = "loop"
             /\ Len(chan'[r]) = Len(chan[r]) + 1 ]_vars

\* C13 (no partial reset observed): every summary a session sent was
\* computed from a book whose most recent reset had been followed by a
\* successful snapshot load.
C13_NoPartialReset ==
    \A r \in Reqs : \A k \in 1 .. Len(audit[r]) : audit[r][k].loaded

\* C14 (an empty Bitstamp payload is not an error): a step in which a
\* session takes a Bitstamp message whose "data" is the empty object leaves
\* the book unchanged and ends the session with no failure; with the client
\* connected the session goes on.
C14_EmptyDataIsNoError ==
    [][ \A r \in Reqs :
          (Took(r) /\ last_msg'[r] = Msg(Bitstamp, "empty_data", <<>>))
          => /\ orderbook' = orderbook
             /\ exit'[r] \in {"none", "send_failed"}
             /\ rx[r] = "open" => task'[r] = "loop" ]_vars

\* a session took an empty Bitstamp payload after another message and runs on
C14_Witness ==
    \E r \in Reqs :
        /\ last_msg[r] = Msg(Bitstamp, "empty_data", <<>>)
        /\ n_taken[r] = 2
        /\ task[r] = "loop"
        /\ orderbook.bids # {}

\* the configuration of a book
Config(ob) ==
    [symbol |-> ob.symbol, levels |-> ob.levels, min_price |-> ob.min_price,
     max_price |-> ob.max_price, decimals |-> ob.decimals]

\* C15 (the guard is held throughout the loop): while a session's task is in
\* its loop it holds the lock; until the task returns no request resets the
\* book or loads snapshots into it, the configuration does not change, and
\* the book changes only by the updates of a message this session took.
C15_GuardHeldThroughout ==
    /\ [](\A r \in Reqs : task[r] = "loop" => lock = Task(r))
    /\ [][ \A r \in Reqs :
             task[r] = "loop"
             => /\ last_reset'.by = last_reset.by
                /\ last_reset'.loaded = last_reset.loaded
                /\ last_reset'.writers \subseteq last_reset.writers \cup {r}
                /\ \A q \in Reqs : pc'[q] = "add_snapshots" => pc[q] = "add_snapshots"
                /\ Config(orderbook') = Config(orderbook)
                /\ orderbook' # orderbook
                   => (Took(r) /\ orderbook' = on_message(orderbook, last_msg'[r]).ob)
                /\ task'[r] = "loop" => lock' = Task(r) ]_vars

\* a session in its loop has applied a message while another request waits
\* for the lock
C15_Witness ==
    \E r \in Reqs : \E q \in Reqs \ {r} :
        /\ task[r] = "loop"
        /\ n_taken[r] = 1
        /\ last_msg[r].kind = "delta"
        /\ pc[q] = "lock"

\* C16 (the lock is never leaked): the lock is free, or held by a handler
\* that is between its reset and the end of its snapshot load, or held by a
\* task that is in its loop; a handler that has returned and a task that has
\* returned hold nothing.
C16_LockNotLeaked ==
    \/ lock = Free
    \/ lock.by = "handler" /\ lock.id \in Reqs /\ pc[lock.id] = "add_snapshots"
    \/ lock.by = "task" /\ lock.id \in Reqs /\ task[lock.id] = "loop"

\* a handler has returned from a failed snapshot load, a task has returned
\* from a failure, and the lock is free
C16_Witness ==
    \E r \in Reqs : \E q \in Reqs \ {r} :
        /\ response[r] = ErrStatus("Failed to add snapshots")
        /\ task[q] = "returned"
        /\ exit[q] = "adapter_failed"
        /\ lock = Free

\* a message that is skipped without anything applied
Skipped(m) ==
    \/ m.kind \in {"not_json", "no_data", "empty_data"}
    \/ m.key = Binance /\ m.kind = "malformed"

\* the task of r returned from the branch of a message
EndedByMessage(r) ==
    exit[r] \in {"message_failed", "adapter_failed", "update_failed", "send_failed"}

\* C17 (one summary per message): a session has sent exactly one summary for
\* every message it took, but for the one that ended it; none before the
\* first message.  For a skipped message taken with the client connected,
\* the summary sent is the one sent before it.
C17_OneSummaryPerMessage ==
    /\ [](\A r \in Reqs :
             /\ \A k \in 1 .. Len(Sent(r)) : Sent(r)[k].ok
             /\ Len(Sent(r)) = n_taken[r] - (IF EndedByMessage(r) THEN 1 ELSE 0))
    /\ [][ \A r \in Reqs :
             (Took(r) /\ Skipped(last_msg'[r]) /\ rx[r] = "open")
             => /\ Len(chan'[r]) = Len(chan[r]) + 1
                /\ Sent(r) # <<>>
                   => chan'[r][Len(chan'[r])] = Sent(r)[Len(Sent(r))] ]_vars

\* a session sent a summary for a delta, then the same summary for a
\* skipped message
C17_Witness ==
    \E r \in Reqs :
        /\ n_taken[r] = 2
        /\ Len(Sent(r)) = 2
        /\ Skipped(last_msg[r])
        /\ Sent(r)[1] = Sent(r)[2]
        /\ Sent(r)[1].summary # ob_get_summary(OwnBook(r))
        /\ task[r] = "loop"

=============================================================================
